---- MODULE Spec2Model ----
(***************************************************************************)
(* NginxSourceViewer config generator (generate_config.py).                *)
(*                                                                         *)
(* main() opens highlight.conf for writing and writes run()'s result.      *)
(* run() queries the CDN catalog for three libraries, derives the possible *)
(* languages and styles from the highlight.js file list, fills the HTML    *)
(* template, rejects single quotes, minifies, rejects an over-long         *)
(* document and returns the nginx configuration fragment.                  *)
(*                                                                         *)
(* Python strings are TLA+ strings; lists and dicts are sequences.         *)
(***************************************************************************)
EXTENDS Integers, Sequences, FiniteSets, TLC

----------------------------------------------------------------------------
\* Bounds of the inputs.

\* Largest number of entries of the languages dict.
MaxLangs == 3
\* Largest number of entries of a caller-supplied style list.
MaxStyles == 2

----------------------------------------------------------------------------
\* Python string and list primitives.

Min(a, b) == IF a < b THEN a ELSE b
Max(a, b) == IF a > b THEN a ELSE b

\* x.startswith(p)
StartsWith(x, p) == Len(x) >= Len(p) /\ SubSeq(x, 1, Len(p)) = p

\* x.endswith(p)
EndsWith(x, p) == Len(x) >= Len(p) /\ SubSeq(x, Len(x) - Len(p) + 1, Len(x)) = p

\* x[start:stop] for start >= 0 and stop < 0
PySlice(x, start, stop) ==
    LET lo == Min(start, Len(x))
        hi == Max(Len(x) + stop, 0)
    IN  IF lo >= hi THEN "" ELSE SubSeq(x, lo + 1, hi)

\* c in x, for a one-character c
Contains(x, c) == \E i \in 1..Len(x) : SubSeq(x, i, i) = c

\* x.find(p) + 1: the first position where p occurs in x, 0 if none
Find(x, p) ==
    LET hits == {i \in 1..(Len(x) - Len(p) + 1) : SubSeq(x, i, i + Len(p) - 1) = p}
    IN  IF hits = {} THEN 0 ELSE CHOOSE i \in hits : \A k \in hits : i <= k

\* sep.join(parts)
RECURSIVE Join(_, _)
Join(parts, sep) ==
    IF parts = <<>> THEN ""
    ELSE IF Len(parts) = 1 THEN parts[1]
    ELSE parts[1] \o sep \o Join(Tail(parts), sep)

\* c * n
RECURSIVE Rep(_, _)
Rep(c, n) ==
    IF n <= 0 THEN ""
    ELSE IF n = 1 THEN c
    ELSE LET h == Rep(c, n \div 2)
         IN  IF n % 2 = 0 THEN h \o h ELSE h \o h \o c

\* The printable ASCII characters from space (32) to underscore (95), and the
\* lower-case letters (97 to 122), in code point order.
AsciiLow ==
    " !\"#$%&'()*+,-./0123456789:;<=>?@ABCDEFGHIJKLMNOPQRSTUVWXYZ[\\]^_"
AsciiLetters == "abcdefghijklmnopqrstuvwxyz"

\* ord(c)
Ord(c) == IF Find(AsciiLetters, c) > 0 THEN 96 + Find(AsciiLetters, c) ELSE 31 + Find(AsciiLow, c)

\* a <= b on str: code point order, a proper prefix first
RECURSIVE StrLeq(_, _)
StrLeq(a, b) ==
    IF a = "" THEN TRUE
    ELSE IF b = "" THEN FALSE
    ELSE IF Head(a) = Head(b) THEN StrLeq(Tail(a), Tail(b))
    ELSE Ord(Head(a)) < Ord(Head(b))

\* sorted(S)
RECURSIVE Sorted(_)
Sorted(S) ==
    IF S = {} THEN <<>>
    ELSE LET m == CHOOSE x \in S : \A y \in S : StrLeq(x, y)
         IN  <<m>> \o Sorted(S \ {m})

\* set(xs)
Range(xs) == {xs[i] : i \in 1..Len(xs)}

\* The sequences without repetition over S of length at most n.
Arrangements(S, n) ==
    {xs \in UNION {[1..k -> S] : k \in 0..n} :
        \A i, k \in 1..Len(xs) : i # k => xs[i] # xs[k]}

\* list.remove(x): the list without the first x ("absent" is reported by the caller)
ListRemove(xs, x) ==
    LET i == CHOOSE k \in 1..Len(xs) : xs[k] = x /\ \A m \in 1..(k - 1) : xs[m] # x
    IN  SubSeq(xs, 1, i - 1) \o SubSeq(xs, i + 1, Len(xs))

\* json.dumps of one str: quotes and backslashes are escaped, nothing else in
\* printable ASCII is.
RECURSIVE JsonEscape(_)
JsonEscape(x) ==
    IF Len(x) = 0 THEN ""
    ELSE IF Len(x) = 1 THEN (IF x = "\"" THEN "\\\"" ELSE IF x = "\\" THEN "\\\\" ELSE x)
    ELSE LET h == Len(x) \div 2
         IN  JsonEscape(SubSeq(x, 1, h)) \o JsonEscape(SubSeq(x, h + 1, Len(x)))

\* json.dumps(xs, separators=(',', ':')) of a list of str
JsonDumps(xs) ==
    "[" \o Join([i \in 1..Len(xs) |-> "\"" \o JsonEscape(xs[i]) \o "\""], ",") \o "]"

----------------------------------------------------------------------------
\* The module-level template strings.

\* MAGIC_HTML, cut at its five placeholders (css, scripts, highlight_version,
\* styles, js); "$$" is already the "$" that Template.substitute leaves.
HTML_0 ==
    "<!DOCTYPE html>\n<html lang=\"en\">\n<head>\n    <meta charset=\"UTF-8\">\n    <meta name=\"generator\" content=\"NginxSourceViewer by Dries007: https://github.com/dries007/NginxSourceViewer\">\n    <link id=\"css\" rel=\"stylesheet\">\n    <style>"
HTML_1 ==
    "</style>\n    <title>$uri</title>\n</head>\n<body class=\"hljs\">\n    "
HTML_2 ==
    "\n    <script id=\"js\" src=\"https://cdnjs.cloudflare.com/ajax/libs/highlight.js/"
HTML_3 ==
    "/languages/$lang.min.js\"></script>\n    <script>const STYLES="
HTML_4 ==
    ";"
HTML_5 ==
    "</script>\n    <div>\n        <a href=\"./\" class=\"hljs-subst\">Show directory.</a>&nbsp;&nbsp;|&nbsp;&nbsp;\n        <a href=\"$uri?raw=1\" class=\"hljs-subst\">Get the raw file here.</a>&nbsp;&nbsp;|&nbsp;&nbsp;\n        <a href=\"#\" id=\"prvstyle\" class=\"hljs-subst\">&larr;</a>&nbsp;Style&nbsp;\n        \"<span id=\"style\" style=\"text-transform: capitalize; display: inline-block; min-width: 20ch;\"></span>\"\n        &nbsp;<a href=\"#\" id=\"nxtstyle\" class=\"hljs-subst\">&rarr;</a>&nbsp;&nbsp;|&nbsp;&nbsp;\n        <a href=\"#\" id=\"wrap\" class=\"hljs-subst\">Toggle wrapping.</a>\n    </div>\n    <pre><code id=\"code\" class=\"$lang\"></code></pre> </body>\n</html>"

\* The same six pieces as htmlmin.minify leaves them: white space holding a line
\* break is dropped or collapsed, optional attribute quotes are removed; the
\* contents of <style> and <script> are not touched.
MIN_0 ==
    "<!DOCTYPE html><html lang=en><head><meta charset=UTF-8><meta name=generator content=\"NginxSourceViewer by Dries007: https://github.com/dries007/NginxSourceViewer\"><link id=css rel=stylesheet><style>"
MIN_1 ==
    "</style><title>$uri</title></head><body class=hljs>"
MIN_2 ==
    "<script id=js src="
MIN_3 ==
    "></script><script>const STYLES="
MIN_4 ==
    ";"
MIN_5 ==
    "</script><div><a href=./ class=hljs-subst>Show directory.</a>&nbsp;&nbsp;|&nbsp;&nbsp; <a href=\"$uri?raw=1\" class=hljs-subst>Get the raw file here.</a>&nbsp;&nbsp;|&nbsp;&nbsp; <a href=# id=prvstyle class=hljs-subst>&larr;</a>&nbsp;Style&nbsp; \"<span id=style style=\"text-transform: capitalize; display: inline-block; min-width: 20ch;\"></span>\" &nbsp;<a href=# id=nxtstyle class=hljs-subst>&rarr;</a>&nbsp;&nbsp;|&nbsp;&nbsp; <a href=# id=wrap class=hljs-subst>Toggle wrapping.</a></div><pre><code id=code class=$lang></code></pre> </body></html>"

\* The hard-coded minified stylesheet and client script.
MINIFIED_CSS ==
    "body,html,pre{min-height:100%}.hljs{font-family:\"Fira Code\",monospace!important}.wrap{white-space:pre-wrap;word-wrap:break-word}td.hljs-ln-code{padding-left:10px!important}td.hljs-ln-numbers{user-select:none;text-align:right;color:#ccc;border-right:1px solid #ccc;vertical-align:top;padding-right:5px!important} "
MINIFIED_JS ==
    "const j=jQuery,ls=localStorage,RAW_URL=\"$uri?raw=1\";var gStyle=STYLES[0];function set_style(e){j(\"#css\").attr(\"href\",j(\"#js\").attr(\"src\").replace(/lang.+/,\"styles/\"+e+\".min.css\")),j(\"#style\").text(e.replace(/[-_]/g,\" \")),gStyle=e,ls.setItem(\"style\",e)}function move_style(e){let t=STYLES.indexOf(gStyle)+e;t<0&&(t+=STYLES.length),set_style(STYLES[t%STYLES.length])}function toggle_wrap(){let e=j(\"#code\"),t=0!=arguments.length?arguments[0]:!e.hasClass(\"wrap\");t?e.addClass(\"wrap\"):e.removeClass(\"wrap\"),ls.setItem(\"wrap\",t)}hljs.configure({tabReplace:\" \"}),j(function(){null!==ls.getItem(\"style\")?set_style(ls.getItem(\"style\")):set_style(gStyle),null!==ls.getItem(\"wrap\")&&toggle_wrap(ls.getItem(\"wrap\")),j.get({url:RAW_URL,dataType:\"text\"}).done(function(e){let t=j(\"#code\").text(e)[0];hljs.highlightBlock(t),hljs.lineNumbersBlock(t)}),j(\"#nxtstyle\").click(function(){move_style(1)}),j(\"#prvstyle\").click(function(){move_style(-1)}),j(\"#wrap\").click(function(){toggle_wrap()})});"

----------------------------------------------------------------------------
\* The inputs: the caller's configuration and the catalog's answers.

\* The server's limit on one directive, and the part of it the rest of the
\* "return 200 '...';" line takes.
NginxLineLimit == 4096
OptionLineRest == 20

\* Entries of the languages dict: language key and nginx regular expression.
\* The patterns of makefile and cmake both match a path ending in ".make".
LangEntries ==
    { <<"python", "\\.(py)$">>,
      <<"makefile", "\\.?(make|makefile)$">>,
      <<"cmake", "\\.(cmake|make)$">> }

\* The languages dicts, in insertion order; keys are unique.
LanguageSpecs == Arrangements(LangEntries, MaxLangs)

\* The three libraries run() asks the catalog for, in the order it asks.
Libraries == <<"jquery", "highlight.js", "highlightjs-line-numbers.js">>

JqueryVersion == "3.3.1"
HighlightVersion == "9.15.6"
LineNumbersVersion == "2.6.0"

\* A catalog answer: the query fails (no answer, no JSON, no assets[0] with
\* version and files), or it yields a version and a file list.
Unavailable == [ok |-> FALSE, version |-> "", files |-> {}]
Assets(v, fs) == [ok |-> TRUE, version |-> v, files |-> fs]

\* File lists of highlight.js: a full one; one without the default style and
\* with files that carry the directory but not the ".min." suffix; one that
\* lacks python and both the default and the dark style.
FilesFull ==
    { "highlight.min.js", "languages/python.min.js", "languages/makefile.min.js",
      "languages/cmake.min.js", "styles/default.min.css", "styles/dark.min.css" }
FilesOdd ==
    { "highlight.min.js", "languages/python.min.js", "languages/x.js",
      "styles/dark.min.css", "styles/brown-papersq.png" }
FilesFew ==
    { "languages/makefile.min.js", "languages/cmake.min.js",
      "styles/xt256.min.css" }

Catalogs ==
    { [lib \in Range(Libraries) |->
          CASE lib = "jquery" -> j
            [] lib = "highlight.js" -> h
            [] OTHER -> l] :
      j \in {Unavailable, Assets(JqueryVersion, {"jquery.min.js"})},
      h \in {Unavailable, Assets(HighlightVersion, FilesFull),
             Assets(HighlightVersion, FilesOdd), Assets(HighlightVersion, FilesFew),
             Assets("9'15.6", FilesFull)},
      l \in {Unavailable, Assets(LineNumbersVersion, {"highlightjs-line-numbers.min.js"})} }

----------------------------------------------------------------------------
\* run(), piece by piece.

\* create_script_tag(lib, version, file)
create_script_tag(lib, version, file) ==
    "<script src=\"" \o "https://cdnjs.cloudflare.com/ajax/libs/" \o lib \o "/" \o version
        \o "/" \o file \o "\"></script>"

\* The scripts list of run().
Scripts(jv, hv, lv) ==
    << <<"jquery", jv, "jquery.min.js">>,
       <<"highlight.js", hv, "highlight.min.js">>,
       <<"highlightjs-line-numbers.js", lv, "highlightjs-line-numbers.min.js">> >>

\* template.substitute(css=, js=, styles=, scripts=, highlight_version=)
TemplateSubstitute(style_list, jv, hv, lv) ==
    LET sc == Scripts(jv, hv, lv)
        tags == [i \in 1..Len(sc) |-> create_script_tag(sc[i][1], sc[i][2], sc[i][3])]
    IN  HTML_0 \o MINIFIED_CSS \o HTML_1 \o Join(tags, "\n    ") \o HTML_2 \o hv
            \o HTML_3 \o JsonDumps(style_list) \o HTML_4 \o MINIFIED_JS \o HTML_5

\* An attribute value as htmlmin writes it with remove_optional_attribute_quotes:
\* bare unless it holds white space, a quote, "=", "<" or ">".
AttrValue(v) ==
    IF \E c \in {" ", "\"", "'", "=", "<", ">"} : Contains(v, c)
    THEN "\"" \o v \o "\"" ELSE v

\* htmlmin.minify(html, remove_comments, remove_empty_space,
\* reduce_boolean_attributes, remove_optional_attribute_quotes) of the document
\* TemplateSubstitute builds from the same arguments.
HtmlMinify(style_list, jv, hv, lv) ==
    LET sc == Scripts(jv, hv, lv)
        url(i) == "https://cdnjs.cloudflare.com/ajax/libs/" \o sc[i][1] \o "/" \o sc[i][2]
                      \o "/" \o sc[i][3]
        tags == [i \in 1..Len(sc) |-> "<script src=" \o AttrValue(url(i)) \o "></script>"]
    IN  MIN_0 \o MINIFIED_CSS \o MIN_1 \o Join(tags, "") \o MIN_2
            \o AttrValue("https://cdnjs.cloudflare.com/ajax/libs/highlight.js/" \o hv
                             \o "/languages/$lang.min.js")
            \o MIN_3 \o JsonDumps(style_list) \o MIN_4 \o MINIFIED_JS \o MIN_5

\* Style names a caller may ask for. PadStyle is as long as it takes for the
\* minified document with the style list [PadStyle] to be exactly
\* NginxLineLimit - OptionLineRest characters long.
PadStyle ==
    Rep("x", (NginxLineLimit - OptionLineRest)
                 - Len(HtmlMinify(<<"">>, JqueryVersion, HighlightVersion, LineNumbersVersion)))

StyleNames == {"default", "dark", "it's", PadStyle}

\* The styles argument: None, or a list of unique names.
None == [given |-> FALSE, list |-> <<>>]
StyleArgs ==
    {None} \cup {[given |-> TRUE, list |-> xs] : xs \in Arrangements(StyleNames, MaxStyles)}

\* {x[10:-7] for x in highlight_files if x.startswith('languages/')}
PossibleLanguages(files) ==
    {PySlice(x, 10, -7) : x \in {y \in files : StartsWith(y, "languages/")}}

\* {x[7:-8] for x in highlight_files if x.startswith('styles/')}
PossibleStyles(files) ==
    {PySlice(x, 7, -8) : x \in {y \in files : StartsWith(y, "styles/")}}

\* styles.remove('default') raises ValueError when 'default' is not in the list.
RemoveRaises(xs) == "default" \notin Range(xs)

\* styles = [*sorted(possible_styles)]; styles.remove('default'); styles.insert(0, 'default')
DefaultStyles(possible) == <<"default">> \o ListRemove(Sorted(possible), "default")

\* EffectiveStyles with a bug: the styles the catalog lacks are dropped from a
\* list the caller passed.
EffectiveStylesFiltered(arg, possible) ==
    IF arg.given THEN SelectSeq(arg.list, LAMBDA x : x \in possible) ELSE DefaultStyles(possible)

\* if styles is None: styles = ...; a list the caller passed is left as it is
EffectiveStyles(arg, possible) ==
    IF arg.given THEN arg.list ELSE DefaultStyles(possible)

\* set(requested) - possible
Missing(requested, possible) == requested \ possible

\* HasSingleQuote with a bug: the template is searched, not the document.
HasSingleQuoteInTemplate(doc) == Contains(HTML_0 \o HTML_1 \o HTML_2 \o HTML_3 \o HTML_4 \o HTML_5, "'")

\* '\'' in html
HasSingleQuote(doc) == Contains(doc, "'")

\* TooLarge with a bug: the rest of the option line is not taken off.
TooLargeNoMargin(new_size) == new_size > NginxLineLimit

\* new_size > 4096-20
TooLarge(new_size) == new_size > NginxLineLimit - OptionLineRest

\* The keys of the languages dict.
Keys(langs) == {langs[i][1] : i \in 1..Len(langs)}

\* LocationGen with a bug: the missing languages are not left out.
LocationGenAll(langs, missing) ==
    [i \in 1..Len(langs) |->
        "location ~* " \o langs[i][2] \o " { if ($arg_raw) {break;} set $lang "
            \o langs[i][1] \o "; try_files @highlight @highlight; }"]

\* LocationGen with a bug: the lines come out in the reverse of the order of the dict.
LocationGenReversed(langs, missing) ==
    LET kept == SelectSeq(langs, LAMBDA e : e[1] \notin missing)
    IN  [i \in 1..Len(kept) |->
            "location ~* " \o kept[Len(kept) + 1 - i][2] \o " { if ($arg_raw) {break;} set $lang "
                \o kept[Len(kept) + 1 - i][1] \o "; try_files @highlight @highlight; }"]

\* location_gen: one location line per language that is not missing, in the
\* order of languages.items().
LocationGen(langs, missing) ==
    LET kept == SelectSeq(langs, LAMBDA e : e[1] \notin missing)
    IN  [i \in 1..Len(kept) |->
            "location ~* " \o kept[i][2] \o " { if ($arg_raw) {break;} set $lang "
                \o kept[i][1] \o "; try_files @highlight @highlight; }"]

\* ', '.join('%s: %s' % (k, v) for k, v in languages.items() [if k in only])
LanguageItems(langs, only) ==
    LET kept == SelectSeq(langs, LAMBDA e : e[1] \in only)
    IN  Join([i \in 1..Len(kept) |-> kept[i][1] \o ": " \o kept[i][2]], ", ")

RequestedLanguagesLine(langs) == "# Requested languages: " \o LanguageItems(langs, Keys(langs))

RequestedStylesLine(style_list) == "# Requested styles: " \o Join(style_list, ", ")

\* MissingLanguagesLine with a bug: every requested language is listed when one
\* is missing.
MissingLanguagesLineAll(langs, missing) ==
    "# Missing languages: " \o (IF missing # {} THEN LanguageItems(langs, Keys(langs)) ELSE "None")

MissingLanguagesLine(langs, missing) ==
    "# Missing languages: " \o (IF missing # {} THEN LanguageItems(langs, missing) ELSE "None")

\* ', '.join(missing_styles) visits the set in the given order.
MissingStylesLine(order) ==
    "# Missing styles: " \o (IF order # <<>> THEN Join(order, ", ") ELSE "None")

\* The orders in which iterating a set of str can visit it: the order follows
\* the strings' hashes, which are salted anew in every interpreter process.
IterationOrders(S) == {xs \in Arrangements(S, Cardinality(S)) : Len(xs) = Cardinality(S)}

\* The tuple run() joins, after filter(None, ...) has dropped the empty strings.
Fragment(langs, style_list, missing_l, missing_s_order, doc) ==
    SelectSeq(
        << "# NginxSourceViewer",
           "# -----------------",
           RequestedLanguagesLine(langs),
           RequestedStylesLine(style_list),
           MissingLanguagesLine(langs, missing_l),
           MissingStylesLine(missing_s_order) >>
        \o LocationGen(langs, missing_l)
        \o << "location @highlight {",
              "    if (!-f $request_filename) {",
              "        return 404;",
              "    }",
              "    charset UTF-8;",
              "    override_charset on;",
              "    source_charset UTF-8;",
              "    default_type text/html;",
              "    add_header Content-Type text/html;",
              "    return 200 '" \o doc \o "';",
              "}" >>,
        LAMBDA line : line # "")

----------------------------------------------------------------------------
\* The state.

VARIABLES
    languages,          \* argument of run(): the languages dict
    styles_arg,         \* argument of run(): the styles list, or None
    cdn,                \* what the catalog answers for each library
    file,               \* highlight.conf on disk
    pc,                 \* where main() is
    error,              \* the exception that ended main(), "" if none
    assets,             \* the (version, files) pairs fetched so far
    possible_languages,
    possible_styles,
    styles,
    missing_languages,
    missing_styles,
    html,
    lines,              \* the lines of the fragment run() returns
    output,             \* the fragment run() returns
    previous            \* the fragments earlier invocations returned

vars ==
    << languages, styles_arg, cdn, file, pc, error, assets, possible_languages,
       possible_styles, styles, missing_languages, missing_styles, html, lines,
       output, previous >>

inputs == << languages, styles_arg, cdn >>

locals ==
    << assets, possible_languages, possible_styles, styles, missing_languages,
       missing_styles, html, lines, output >>

\* highlight.conf before main() runs: not there, or left by an earlier run.
NoFile == [exists |-> FALSE, content |-> ""]
OldFile == [exists |-> TRUE, content |-> "# NginxSourceViewer (old)"]

FreshLocals ==
    /\ assets = <<>>
    /\ possible_languages = {}
    /\ possible_styles = {}
    /\ styles = <<>>
    /\ missing_languages = {}
    /\ missing_styles = {}
    /\ html = ""
    /\ lines = <<>>
    /\ output = ""

Init ==
    /\ languages \in LanguageSpecs
    /\ styles_arg \in StyleArgs
    /\ cdn \in Catalogs
    /\ file \in {NoFile, OldFile}
    /\ pc = "open"
    /\ error = ""
    /\ previous = {}
    /\ FreshLocals

\* raise: the exception leaves run() and main()
Raise(e) ==
    /\ pc' = "raised"
    /\ error' = e

\* main(): open('highlight.conf', 'w') creates the file or truncates it; the
\* argument of f.write is evaluated after that.
MainOpen ==
    /\ pc = "open"
    /\ file' = [exists |-> TRUE, content |-> ""]
    /\ pc' = "fetch"
    /\ UNCHANGED << inputs, error, locals, previous >>

\* get_cdn_files(library), for the next of the three libraries.
GetCdnFiles ==
    /\ pc = "fetch"
    /\ LET answer == cdn[Libraries[Len(assets) + 1]]
       IN  IF answer.ok
           THEN /\ assets' = Append(assets, << answer.version, answer.files >>)
                /\ pc' = IF Len(assets) + 1 = Len(Libraries) THEN "capabilities" ELSE "fetch"
                /\ error' = error
           ELSE /\ Raise("catalog")
                /\ assets' = assets
    /\ UNCHANGED << inputs, file, possible_languages, possible_styles, styles,
                    missing_languages, missing_styles, html, lines, output, previous >>

\* run(): possible languages and styles, the default style list, what is missing.
Capabilities ==
    /\ pc = "capabilities"
    /\ LET highlight_files == assets[2][2]
           pl == PossibleLanguages(highlight_files)
           ps == PossibleStyles(highlight_files)
       IN  /\ possible_languages' = pl
           /\ possible_styles' = ps
           /\ IF ~styles_arg.given /\ RemoveRaises(Sorted(ps))
              THEN /\ Raise("remove")
                   /\ UNCHANGED << styles, missing_languages, missing_styles >>
              ELSE /\ styles' = EffectiveStyles(styles_arg, ps)
                   /\ missing_languages' = Missing(Keys(languages), pl)
                   /\ missing_styles' = Missing(Range(styles'), ps)
                   /\ pc' = "assemble"
                   /\ error' = error
    /\ UNCHANGED << inputs, file, assets, html, lines, output, previous >>

\* run(): fill the template; a single quote in the result is an error.
Assemble ==
    /\ pc = "assemble"
    /\ html' = TemplateSubstitute(styles, assets[1][1], assets[2][1], assets[3][1])
    /\ IF HasSingleQuote(html')
       THEN Raise("single_quote")
       ELSE pc' = "minify" /\ error' = error
    /\ UNCHANGED << inputs, file, assets, possible_languages, possible_styles, styles,
                    missing_languages, missing_styles, lines, output, previous >>

\* run(): minify; a document longer than the limit is an error.
SizeGuard ==
    /\ pc = "minify"
    /\ html' = HtmlMinify(styles, assets[1][1], assets[2][1], assets[3][1])
    /\ IF TooLarge(Len(html'))
       THEN Raise("too_large")
       ELSE pc' = "emit" /\ error' = error
    /\ UNCHANGED << inputs, file, assets, possible_languages, possible_styles, styles,
                    missing_languages, missing_styles, lines, output, previous >>

\* run(): build and return the fragment.
Emit ==
    /\ pc = "emit"
    /\ \E order \in IterationOrders(missing_styles) :
          /\ lines' = Fragment(languages, styles, missing_languages, order, html)
          /\ output' = Join(lines', "\n")
    /\ pc' = "write"
    /\ UNCHANGED << inputs, file, error, assets, possible_languages, possible_styles,
                    styles, missing_languages, missing_styles, html, previous >>

\* main(): f.write(...) and the end of the with block.
MainWrite ==
    /\ pc = "write"
    /\ file' = [exists |-> TRUE, content |-> output]
    /\ pc' = "done"
    /\ UNCHANGED << inputs, error, locals, previous >>

\* The generator is run again, in a new process, on the same configuration and
\* the same catalog answers.
Rerun ==
    /\ pc = "done"
    /\ previous' = previous \cup {output}
    /\ pc' = "open"
    /\ assets' = <<>>
    /\ possible_languages' = {}
    /\ possible_styles' = {}
    /\ styles' = <<>>
    /\ missing_languages' = {}
    /\ missing_styles' = {}
    /\ html' = ""
    /\ lines' = <<>>
    /\ output' = ""
    /\ UNCHANGED << inputs, file, error >>

Next ==
    \/ MainOpen
    \/ GetCdnFiles
    \/ Capabilities
    \/ Assemble
    \/ SizeGuard
    \/ Emit
    \/ MainWrite
    \/ Rerun

Spec == Init /\ [][Next]_vars

----------------------------------------------------------------------------
\* Reading the fragment back, as nginx and a reader of the comments do.

\* run() has returned a fragment.
Returned == pc \in {"write", "done"}

\* The possible languages and styles have been computed.
Matched == pc \in {"assemble", "minify", "emit", "write", "done"} \/ error \in {"remove", "single_quote", "too_large"}

\* s.split(sep), with no parts for the empty string
RECURSIVE SplitOn(_, _)
SplitOn(s, sep) ==
    IF s = "" THEN <<>>
    ELSE LET i == Find(s, sep)
         IN  IF i = 0 THEN <<s>>
             ELSE <<SubSeq(s, 1, i - 1)>> \o SplitOn(SubSeq(s, i + Len(sep), Len(s)), sep)

\* The text of the comment line that starts with the given label.
CommentPayload(label) ==
    LET i == CHOOSE k \in 1..Len(lines) : StartsWith(lines[k], label)
    IN  SubSeq(lines[i], Len(label) + 1, Len(lines[i]))

RuleHead == "location ~* "
RuleMid == " { if ($arg_raw) {break;} set $lang "
RuleTail == "; try_files @highlight @highlight; }"

\* The routing rules of the fragment, in the order they appear.
Rules == SelectSeq(lines, LAMBDA line : StartsWith(line, RuleHead))

\* The language tag a rule sets, and the pattern it matches paths against.
RuleTag(rule) == SubSeq(rule, Find(rule, RuleMid) + Len(RuleMid), Len(rule) - Len(RuleTail))
RuleRegex(rule) == SubSeq(rule, Len(RuleHead) + 1, Find(rule, RuleMid) - 1)

RoutedTags == {RuleTag(Rules[i]) : i \in 1..Len(Rules)}

\* The document between the quotes of the "return 200" directive.
ReturnHead == "    return 200 '"
EmbeddedDocument ==
    LET i == CHOOSE k \in 1..Len(lines) : StartsWith(lines[k], ReturnHead)
    IN  SubSeq(lines[i], Len(ReturnHead) + 1, Len(lines[i]) - 2)

\* The style array of the document's script, read back as a list of names.
EmbeddedStyles ==
    LET doc == EmbeddedDocument
        from == Find(doc, "const STYLES=") + Len("const STYLES=")
        to == Find(doc, ";const j=jQuery") - 1
        array == SubSeq(doc, from, to)
        inner == SubSeq(array, 2, Len(array) - 1)
    IN  IF inner = "" THEN <<>>
        ELSE SplitOn(SubSeq(inner, 2, Len(inner) - 1), "\",\"")

\* What the patterns of LangEntries match: a path that ends in one of these.
RegexSuffixes(regex) ==
    CASE regex = "\\.(py)$" -> {".py"}
      [] regex = "\\.?(make|makefile)$" -> {"make", "makefile"}
      [] regex = "\\.(cmake|make)$" -> {".cmake", ".make"}
      [] OTHER -> {}

Matches(regex, path) == \E suffix \in RegexSuffixes(regex) : EndsWith(path, suffix)

\* Request paths.
Paths == {"foo.make", "makefile", "build.cmake", "run.py", "notes.txt"}

\* nginx tries the regular expression locations in the order of the file and
\* takes the first that matches: the language it sets for a path, "" if none.
NginxLang(path) ==
    LET hits == {i \in 1..Len(Rules) : Matches(RuleRegex(Rules[i]), path)}
    IN  IF hits = {} THEN ""
        ELSE RuleTag(Rules[CHOOSE i \in hits : \A k \in hits : i <= k])

----------------------------------------------------------------------------
\* C1: when run() returns, the tags of the emitted routing rules and
\* missing_languages partition the keys of the languages dict: together they
\* are all the keys, and no tag is missing.
C1_Partition ==
    Returned =>
        /\ RoutedTags \cup missing_languages = Keys(languages)
        /\ RoutedTags \cap missing_languages = {}

\* C1 happens: a fragment with a routed and a missing language.
C1_Witness == pc = "done" /\ RoutedTags # {} /\ missing_languages # {}

\* C2: a second invocation on the same languages, styles and catalog answers
\* returns the same text as the first.
C2_SameOutput == (pc = "done" /\ previous # {}) => previous = {output}

\* C3 as stated: the document of a returned fragment is shorter than 4096 - 20.
C3_StrictlyShorter == Returned => Len(EmbeddedDocument) < 4096 - 20

\* C3, amended: the document of a returned fragment is at most 4096 - 20
\* characters long, and the too-large error is raised only for, and for every,
\* minified document longer than that.
C3_AtMostLimit ==
    /\ pc \in {"emit", "write", "done"} => Len(html) <= 4096 - 20
    /\ Returned => Len(EmbeddedDocument) <= 4096 - 20
    /\ error = "too_large" => Len(html) > 4096 - 20

\* C3 happens: a fragment whose document is exactly 4096 - 20 characters long.
C3_Witness == pc = "done" /\ Len(EmbeddedDocument) = 4096 - 20

\* A style name or a library version carries a single quote.
QuoteInInputs ==
    \/ \E i \in 1..Len(styles) : Contains(styles[i], "'")
    \/ \E i \in 1..Len(assets) : Contains(assets[i][1], "'")

C5_DefaultStyleList ==
    (Matched /\ ~styles_arg.given) =>
        /\ error # "remove"
        /\ styles = IF "default" \in possible_styles
                    THEN <<"default">> \o Sorted(possible_styles \ {"default"})
                    ELSE Sorted(possible_styles)

\* The entries of the languages dict that are not missing, in insertion order.
Available == SelectSeq(languages, LAMBDA e : e[1] \notin missing_languages)

\* C6: the rules are the available languages in insertion order, and nginx
\* sets, for a path, the language of the first available entry whose pattern
\* matches it.
C6_InsertionOrder ==
    Returned =>
        /\ [i \in 1..Len(Rules) |-> RuleTag(Rules[i])] = [i \in 1..Len(Available) |-> Available[i][1]]
        /\ \A path \in Paths :
              \A i \in 1..Len(Available) :
                  (/\ Matches(Available[i][2], path)
                   /\ \A k \in 1..(i - 1) : ~Matches(Available[k][2], path))
                      => NginxLang(path) = Available[i][1]

\* C6 happens: a missing language between two available ones whose patterns
\* both match "foo.make".
C6_Witness ==
    /\ pc = "done"
    /\ Len(languages) = 3
    /\ languages[2][1] \in missing_languages
    /\ languages[1][1] \notin missing_languages /\ Matches(languages[1][2], "foo.make")
    /\ languages[3][1] \notin missing_languages /\ Matches(languages[3][2], "foo.make")

\* C7: when generation fails nothing has been produced: after a catalog failure
\* no document was assembled, no fragment exists, and highlight.conf is as it
\* was before main() ran.
C7_AllOrNothing ==
    pc = "raised" =>
        /\ error = "catalog" => html = ""
        /\ lines = <<>> /\ output = ""
        /\ file \in {NoFile, OldFile}

\* The languages the "Missing languages" comment names, in its order.
ListedMissingLanguages ==
    LET items == SplitOn(CommentPayload("# Missing languages: "), ", ")
    IN  [i \in 1..Len(items) |-> SubSeq(items[i], 1, Find(items[i], ": ") - 1)]

C9_PrefixAndSuffix ==
    Matched =>
        /\ possible_languages =
              {SubSeq(x, 11, Len(x) - 7) :
                  x \in {y \in assets[2][2] : StartsWith(y, "languages/") /\ EndsWith(y, ".min.js")}}
        /\ possible_styles =
              {SubSeq(x, 8, Len(x) - 8) :
                  x \in {y \in assets[2][2] : StartsWith(y, "styles/") /\ EndsWith(y, ".min.css")}}

\* C10: a style list the caller passed reaches the document's style array and
\* the "Requested styles" comment unchanged, missing styles included.
C10_StylesNotFiltered ==
    (Returned /\ styles_arg.given) =>
        /\ EmbeddedStyles = styles_arg.list
        /\ SplitOn(CommentPayload("# Requested styles: "), ", ") = styles_arg.list

\* C10 happens: a fragment for a passed list of two styles, one of them missing.
C10_Witness ==
    /\ pc = "done"
    /\ styles_arg.given
    /\ Len(styles_arg.list) = 2
    /\ \E i \in 1..2 : styles_arg.list[i] \in missing_styles

====
